---- MODULE Spec2Model ----
(***************************************************************************)
(* Asynchronous AI response generation of the chat backend:                *)
(*   backend/chat/views.py  ChatQueryView.post, ChatResponseStatusView.get *)
(*   backend/chat/tasks.py  generate_ai_response                           *)
(* The durable store (ChatSession and ChatMessage rows), the status cache, *)
(* the task queue and every request's and task run's local variables are   *)
(* the state.  Every database, cache, broker or AI-service call is one     *)
(* atomic step, so requests and task runs interleave between their calls,  *)
(* and every such call either succeeds or raises.                          *)
(***************************************************************************)
EXTENDS Integers, FiniteSets, Sequences, TLC

\* ------------------------------------------------------------------ bounds
MaxPosts == 2          \* ChatQueryView.post requests in a behaviour
MaxTokens == 1         \* tokens_used reported by the AI service: 0..MaxTokens
MaxFaults == 2         \* calls (database, cache, broker, AI service) that raise in a behaviour
TickStep == 150        \* seconds the clock advances in one Tick
MaxTime == 300         \* the clock stops advancing once it has reached MaxTime

\* ------------------------------------------------------- program constants
CacheTimeout == 300    \* timeout=300 of every cache.set of the task

Posts == 1..MaxPosts
\* a request enqueues at most one task
TaskIds == 1..MaxPosts
\* ids a client may put in a request: session ids and message ids
SessionIds == 1..MaxPosts
MessageIds == 1..(3 * MaxPosts)
Responses == {"r1", "r2"}
Apology == "apology"

VARIABLES sessions, messages, cache, tasks, req, now, last, faults

\* accounts: User rows, PasswordResetToken rows, the queued reset emails, the
\* password reset requests and confirmations, and the clock created_at is read on
VARIABLES users, reset_tokens, mail, rreq, conf, clock

avars == <<users, reset_tokens, mail, rreq, conf, clock>>

vars == <<sessions, messages, cache, tasks, req, now, last, faults, avars>>

\* ------------------------------------------------------------ local values
\* A request's or a run's local variable `session`: the row as it was read.
UnboundSession == [bound |-> FALSE, id |-> 0, message_count |-> 0, total_tokens_used |-> 0]

BoundSession(sid, row) ==
    [bound |-> TRUE, id |-> sid, message_count |-> row.message_count,
     total_tokens_used |-> row.total_tokens_used]

\* What session.save() writes: every field of the in-memory object.
RowOf(s) == [message_count |-> s.message_count, total_tokens_used |-> s.total_tokens_used]

NoResponseData == [response |-> "", tokens_used |-> 0]

IdleReq ==
    [pc |-> "idle", session |-> UnboundSession, user_message_id |-> 0,
     task_id |-> 0, http |-> 0, message_count |-> 0]

\* Fresh primary keys: the next unused id.
NewId(rows) == Cardinality(DOMAIN rows) + 1

\* f"ai_response_{user_message_id}"
CacheKey(message_id) == <<"ai_response_", message_id>>

NoBlob == [status |-> "not_found", message_id |-> 0, response |-> "", timestamp |-> 0]

\* cache.set(key, blob, timeout): the entry and the time it expires at.
CacheSet(c, key, blob, timeout) ==
    [k \in DOMAIN c \cup {key} |->
        IF k = key THEN [blob |-> blob, expires |-> now + timeout] ELSE c[k]]

\* cache.get(key): the blob of a live entry, None (NoBlob) otherwise.
CacheGet(c, key) ==
    IF key \in DOMAIN c /\ now < c[key].expires THEN c[key].blob ELSE NoBlob

\* The run's state when generate_ai_response.delay(session_id, user_message_id, ...)
\* has put it on the queue.  as_read, failed_at and fallback are history: the row
\* the run read at line 14, the step whose call raised, and how far lines 83-99 got.
NewTask(session_id, user_message_id) ==
    [pc |-> "queued", session_id |-> session_id, user_message_id |-> user_message_id,
     session |-> UnboundSession, cache_key_bound |-> FALSE,
     response_data |-> NoResponseData, ai_message |-> 0, ret |-> "none",
     as_read |-> UnboundSession, failed_at |-> "none", fallback |-> "none"]

\* A task id no request has enqueued a run under yet.
NoTask == [NewTask(0, 0) EXCEPT !.pc = "none"]

\* The runs that were enqueued.
Queue == {t \in TaskIds : tasks[t].pc # "none"}

\* ---------------------------------------------------------------- accounts
MaxResetRequests == 2  \* PasswordResetRequestView.post requests in a behaviour
MaxConfirms == 2       \* PasswordResetConfirmView.post requests in a behaviour
ClockStep == 1800      \* seconds the accounts clock advances in one step
MaxClock == 5400       \* the accounts clock stops once it has reached MaxClock

TokenLifetime == 3600  \* timezone.timedelta(hours=1)

ResetRequests == 1..MaxResetRequests
Confirms == 1..MaxConfirms
Emails == {"active", "inactive", "nobody"}
Passwords == {"new1", "new2"}
\* token strings a client may send: those issued and one never issued
TokenValues == 1..(MaxResetRequests + 1)

\* user.set_password(password): the stored value is the hash, not the password
MakePassword(password) == <<"hashed", password>>

\* The User rows: one active, one inactive; no row has the email "nobody".
InitUsers ==
    (1 :> [email |-> "active", is_active |-> TRUE, password |-> MakePassword("old")]) @@
    (2 :> [email |-> "inactive", is_active |-> FALSE, password |-> MakePassword("old")])

IdleResetRequest == [pc |-> "idle", valid |-> FALSE, email |-> "", http |-> 0, body |-> ""]

NoResetToken == [id |-> 0, user |-> 0, token |-> 0, is_used |-> FALSE, created_at |-> 0]

IdleConfirm ==
    [pc |-> "idle", valid |-> FALSE, token |-> 0, password |-> "",
     reset_token |-> NoResetToken, http |-> 0, body |-> ""]

Init ==
    /\ sessions = <<>>
    /\ messages = <<>>
    /\ cache = <<>>
    /\ tasks = [t \in TaskIds |-> NoTask]
    /\ req = [p \in Posts |-> IdleReq]
    /\ now = 0
    /\ last = [op |-> "none", id |-> 0, http |-> 0, body |-> NoBlob]
    /\ faults = 0
    /\ users = InitUsers
    /\ reset_tokens = <<>>
    /\ mail = <<>>
    /\ rreq = [r \in ResetRequests |-> IdleResetRequest]
    /\ conf = [c \in Confirms |-> IdleConfirm]
    /\ clock = 0

\* A call raises: any database, cache, broker or AI-service call may.
Fault == faults < MaxFaults /\ faults' = faults + 1

NoFault == UNCHANGED faults

\* ------------------------------------------------- ChatQueryView.post
ReqSet(p, r) == req' = [req EXCEPT ![p] = r]

\* An unhandled exception of the view: the framework answers 500.
PostFails(p) == Fault /\ ReqSet(p, [req[p] EXCEPT !.pc = "done", !.http = 500])

\* Lines 92-99: ChatSession.objects.create(...): a new row, its counters at
\* their defaults.
CreateSession(p) ==
    LET sid == NewId(sessions)
        row == [message_count |-> 0, total_tokens_used |-> 0]
    IN /\ sessions' = sessions @@ (sid :> row)
       /\ ReqSet(p, [req[p] EXCEPT !.pc = "create_message", !.session = BoundSession(sid, row)])

\* Lines 28-47: validate, then get the session named in the request or create
\* one.  Requests are numbered in the order they arrive.
PostStart(p) ==
    /\ req[p].pc = "idle"
    /\ \A q \in Posts : q < p => req[q].pc # "idle"
    /\ \/ /\ ReqSet(p, [req[p] EXCEPT !.pc = "done", !.http = 400])
          /\ UNCHANGED sessions
          /\ NoFault
       \/ /\ \E session_id \in {0} \cup SessionIds :
                IF session_id # 0 /\ session_id \in DOMAIN sessions
                THEN /\ ReqSet(p, [req[p] EXCEPT !.pc = "create_message",
                                      !.session = BoundSession(session_id, sessions[session_id])])
                     /\ UNCHANGED sessions
                ELSE CreateSession(p)
          /\ NoFault
       \/ /\ PostFails(p)
          /\ UNCHANGED sessions
    /\ UNCHANGED <<messages, cache, tasks, now, last, avars>>

UserMessage(sid) ==
    [session |-> sid, is_from_user |-> TRUE, content |-> "query", tokens_used |-> 0]

\* Mutant of PostCreateUserMessage: ChatMessage(...) in place of
\* ChatMessage.objects.create(...): the object has its id, the row is not stored.
PostCreateUserMessageUnsaved(p) ==
    /\ req[p].pc = "create_message"
    /\ ReqSet(p, [req[p] EXCEPT !.pc = "save_session", !.user_message_id = NewId(messages)])
    /\ UNCHANGED <<sessions, messages, cache, tasks, now, last, faults, avars>>

\* Lines 49-54: ChatMessage.objects.create(session, content=query, is_from_user=True)
PostCreateUserMessage(p) ==
    /\ req[p].pc = "create_message"
    /\ \/ LET mid == NewId(messages)
          IN /\ messages' = messages @@ (mid :> UserMessage(req[p].session.id))
             /\ ReqSet(p, [req[p] EXCEPT !.pc = "save_session", !.user_message_id = mid])
             /\ NoFault
       \/ /\ PostFails(p)
          /\ UNCHANGED messages
    /\ UNCHANGED <<sessions, cache, tasks, now, last, avars>>

\* Lines 56-58: session.message_count += 1; session.save()
PostSaveSession(p) ==
    /\ req[p].pc = "save_session"
    /\ LET s == [req[p].session EXCEPT !.message_count = @ + 1]
       IN \/ /\ sessions' = [sessions EXCEPT ![s.id] = RowOf(s)]
             /\ ReqSet(p, [req[p] EXCEPT !.pc = "enqueue", !.session = s])
             /\ NoFault
          \/ /\ Fault
             /\ ReqSet(p, [req[p] EXCEPT !.pc = "done", !.http = 500, !.session = s])
             /\ UNCHANGED sessions
    /\ UNCHANGED <<messages, cache, tasks, now, last, avars>>

\* Lines 60-69: generate_ai_response.delay(session_id=str(session.id),
\* user_message_id=str(user_message.id), ...)
PostEnqueue(p) ==
    /\ req[p].pc = "enqueue"
    /\ \/ LET tid == Cardinality(Queue) + 1
          IN /\ tasks' = [tasks EXCEPT ![tid] = NewTask(req[p].session.id, req[p].user_message_id)]
             /\ ReqSet(p, [req[p] EXCEPT !.pc = "respond", !.task_id = tid])
             /\ NoFault
       \/ /\ PostFails(p)
          /\ UNCHANGED tasks
    /\ UNCHANGED <<sessions, messages, cache, now, last, avars>>

\* Lines 71-90: track_event.delay(...), then the 200 response with
\* user_message_id, status 'processing' and the in-memory message_count.
PostRespond(p) ==
    /\ req[p].pc = "respond"
    /\ ReqSet(p, [req[p] EXCEPT !.pc = "done", !.http = 200,
                     !.message_count = req[p].session.message_count])
    /\ UNCHANGED <<sessions, messages, cache, tasks, now, last, faults, avars>>

\* ------------------------------------------------- generate_ai_response
TaskSet(t, r) == tasks' = [tasks EXCEPT ![t] = r]

\* A call of the try body (lines 14-64) raised: control goes to line 73.
Raised(r, step) == [r EXCEPT !.pc = "except", !.failed_at = step]

\* Lines 57-64, 75-80, 94-99: the dicts the run stores in the cache.
Blob(status, message_id, response) ==
    [status |-> status, message_id |-> message_id, response |-> response, timestamp |-> now]

AiMessage(sid, content, tokens_used) ==
    [session |-> sid, is_from_user |-> FALSE, content |-> content, tokens_used |-> tokens_used]

\* Line 14: session = ChatSession.objects.get(id=session_id)
TaskGetSession(t) ==
    /\ tasks[t].pc = "queued"
    /\ IF tasks[t].session_id \in DOMAIN sessions
       THEN LET s == BoundSession(tasks[t].session_id, sessions[tasks[t].session_id])
            IN \/ /\ TaskSet(t, [tasks[t] EXCEPT !.pc = "get_message", !.session = s,
                                    !.as_read = s])
                  /\ NoFault
               \/ /\ Fault
                  /\ TaskSet(t, Raised(tasks[t], "get_session"))
       ELSE /\ TaskSet(t, Raised(tasks[t], "get_session"))
            /\ NoFault
    /\ UNCHANGED <<sessions, messages, cache, req, now, last, avars>>

\* Line 15: user_message = ChatMessage.objects.get(id=user_message_id)
TaskGetMessage(t) ==
    /\ tasks[t].pc = "get_message"
    /\ IF tasks[t].user_message_id \in DOMAIN messages
       THEN \/ /\ TaskSet(t, [tasks[t] EXCEPT !.pc = "set_processing"])
               /\ NoFault
            \/ /\ Fault
               /\ TaskSet(t, Raised(tasks[t], "get_message"))
       ELSE /\ TaskSet(t, Raised(tasks[t], "get_message"))
            /\ NoFault
    /\ UNCHANGED <<sessions, messages, cache, req, now, last, avars>>

\* Lines 17-23: cache_key is bound, then cache.set(cache_key, processing, 300)
TaskSetProcessing(t) ==
    /\ tasks[t].pc = "set_processing"
    /\ LET r == [tasks[t] EXCEPT !.cache_key_bound = TRUE]
       IN \/ /\ cache' = CacheSet(cache, CacheKey(r.user_message_id),
                                  Blob("processing", 0, ""), CacheTimeout)
             /\ TaskSet(t, [r EXCEPT !.pc = "call_ai"])
             /\ NoFault
          \/ /\ Fault
             /\ TaskSet(t, Raised(r, "set_processing"))
             /\ UNCHANGED cache
    /\ UNCHANGED <<sessions, messages, req, now, last, avars>>

\* Lines 25-37: response_data = ChatAIService().generate_response(...)
TaskCallAI(t) ==
    /\ tasks[t].pc = "call_ai"
    /\ \/ /\ \E response \in Responses, tokens_used \in 0..MaxTokens :
                TaskSet(t, [tasks[t] EXCEPT !.pc = "create_ai_message",
                               !.response_data = [response |-> response,
                                                  tokens_used |-> tokens_used]])
          /\ NoFault
       \/ /\ Fault
          /\ TaskSet(t, Raised(tasks[t], "call_ai"))
    /\ UNCHANGED <<sessions, messages, cache, req, now, last, avars>>

\* Lines 39-49: ai_message = ChatMessage.objects.create(session, content=response, ...)
TaskCreateAIMessage(t) ==
    /\ tasks[t].pc = "create_ai_message"
    /\ \/ LET mid == NewId(messages)
              rd == tasks[t].response_data
          IN /\ messages' = messages @@
                    (mid :> AiMessage(tasks[t].session.id, rd.response, rd.tokens_used))
             /\ TaskSet(t, [tasks[t] EXCEPT !.pc = "save_session", !.ai_message = mid])
             /\ NoFault
       \/ /\ Fault
          /\ TaskSet(t, Raised(tasks[t], "create_ai_message"))
          /\ UNCHANGED messages
    /\ UNCHANGED <<sessions, cache, req, now, last, avars>>

\* Lines 51-54: message_count += 1; total_tokens_used += tokens_used; session.save()
TaskSaveSession(t) ==
    /\ tasks[t].pc = "save_session"
    /\ LET s == [tasks[t].session EXCEPT
                    !.message_count = @ + 1,
                    !.total_tokens_used = @ + tasks[t].response_data.tokens_used]
           r == [tasks[t] EXCEPT !.session = s]
       IN \/ /\ sessions' = [sessions EXCEPT ![s.id] = RowOf(s)]
             /\ TaskSet(t, [r EXCEPT !.pc = "set_completed"])
             /\ NoFault
          \/ /\ Fault
             /\ TaskSet(t, Raised(r, "save_session"))
             /\ UNCHANGED sessions
    /\ UNCHANGED <<messages, cache, req, now, last, avars>>

\* Lines 56-71: cache.set(cache_key, completed, 300); return {'status': 'success', ...}
TaskSetCompleted(t) ==
    /\ tasks[t].pc = "set_completed"
    /\ \/ /\ cache' = CacheSet(cache, CacheKey(tasks[t].user_message_id),
                               Blob("completed", tasks[t].ai_message,
                                    tasks[t].response_data.response), CacheTimeout)
          /\ TaskSet(t, [tasks[t] EXCEPT !.pc = "done", !.ret = "success"])
          /\ NoFault
       \/ /\ Fault
          /\ TaskSet(t, Raised(tasks[t], "set_completed"))
          /\ UNCHANGED cache
    /\ UNCHANGED <<sessions, messages, req, now, last, avars>>

\* The exception leaves the task: generate_ai_response returns nothing.
Escaped(r) == [r EXCEPT !.pc = "raised", !.ret = "exception"]

\* Lines 73-80: cache.set(cache_key, error, 300) in the handler, outside any try.
\* With cache_key not yet bound (the failure was at line 14 or 15) reading it
\* raises UnboundLocalError; a failing cache.set raises too.
TaskExceptSetError(t) ==
    /\ tasks[t].pc = "except"
    /\ IF tasks[t].cache_key_bound
       THEN \/ /\ cache' = CacheSet(cache, CacheKey(tasks[t].user_message_id),
                                    Blob("error", 0, Apology), CacheTimeout)
               /\ TaskSet(t, [tasks[t] EXCEPT !.pc = "fallback_create"])
               /\ NoFault
            \/ /\ Fault
               /\ TaskSet(t, Escaped(tasks[t]))
               /\ UNCHANGED cache
       ELSE /\ TaskSet(t, Escaped(tasks[t]))
            /\ UNCHANGED cache
            /\ NoFault
    /\ UNCHANGED <<sessions, messages, req, now, last, avars>>

\* Lines 101-107: the inner handler prints, then return {'status': 'error', ...}
ReturnError(r) == [r EXCEPT !.pc = "done", !.ret = "error"]

\* Lines 83-89: ai_message = ChatMessage.objects.create(session, content=apology, ...)
\* (an unbound session raises here as well, inside the inner try)
TaskFallbackCreate(t) ==
    /\ tasks[t].pc = "fallback_create"
    /\ IF tasks[t].session.bound
       THEN \/ LET mid == NewId(messages)
               IN /\ messages' = messages @@
                         (mid :> AiMessage(tasks[t].session.id, Apology, 0))
                  /\ TaskSet(t, [tasks[t] EXCEPT !.pc = "fallback_save", !.ai_message = mid,
                                    !.fallback = "created"])
                  /\ NoFault
            \/ /\ Fault
               /\ TaskSet(t, ReturnError([tasks[t] EXCEPT !.fallback = "create_failed"]))
               /\ UNCHANGED messages
       ELSE /\ TaskSet(t, ReturnError(tasks[t]))
            /\ UNCHANGED messages
            /\ NoFault
    /\ UNCHANGED <<sessions, cache, req, now, last, avars>>

\* Lines 91-92: session.message_count += 1; session.save()
TaskFallbackSave(t) ==
    /\ tasks[t].pc = "fallback_save"
    /\ LET s == [tasks[t].session EXCEPT !.message_count = @ + 1]
           r == [tasks[t] EXCEPT !.session = s]
       IN \/ /\ sessions' = [sessions EXCEPT ![s.id] = RowOf(s)]
             /\ TaskSet(t, [r EXCEPT !.pc = "fallback_set_error", !.fallback = "saved"])
             /\ NoFault
          \/ /\ Fault
             /\ TaskSet(t, ReturnError(r))
             /\ UNCHANGED sessions
    /\ UNCHANGED <<messages, cache, req, now, last, avars>>

\* Lines 94-107: cache.set(cache_key, error with message_id, 300); return error
TaskFallbackSetError(t) ==
    /\ tasks[t].pc = "fallback_set_error"
    /\ \/ /\ cache' = CacheSet(cache, CacheKey(tasks[t].user_message_id),
                               Blob("error", tasks[t].ai_message, Apology), CacheTimeout)
          /\ NoFault
       \/ /\ Fault
          /\ UNCHANGED cache
    /\ TaskSet(t, ReturnError(tasks[t]))
    /\ UNCHANGED <<sessions, messages, req, now, last, avars>>

\* ------------------------------------------------- ChatResponseStatusView.get
\* Mutant of Poll: the entry is dropped once it has been read.
PollAndEvict(message_id) ==
    /\ LET response_data == CacheGet(cache, CacheKey(message_id))
       IN last' = IF response_data = NoBlob
                  THEN [op |-> "poll", id |-> message_id, http |-> 404, body |-> NoBlob]
                  ELSE [op |-> "poll", id |-> message_id, http |-> 200, body |-> response_data]
    /\ cache' = [k \in DOMAIN cache \ {CacheKey(message_id)} |-> cache[k]]
    /\ UNCHANGED <<sessions, messages, tasks, req, now, faults, avars>>

\* Lines 106-116: the blob under ai_response_<message_id>, or 404 not_found.
Poll(message_id) ==
    /\ LET response_data == CacheGet(cache, CacheKey(message_id))
       IN last' = IF response_data = NoBlob
                  THEN [op |-> "poll", id |-> message_id, http |-> 404, body |-> NoBlob]
                  ELSE [op |-> "poll", id |-> message_id, http |-> 200, body |-> response_data]
    /\ UNCHANGED <<sessions, messages, cache, tasks, req, now, faults, avars>>

\* ------------------------------------------------- time
Tick ==
    /\ now < MaxTime
    /\ now' = now + TickStep
    /\ UNCHANGED <<sessions, messages, cache, tasks, req, last, faults, avars>>

\* ------------------------------------------------- specifications
PostStep(p) ==
    \/ PostStart(p)
    \/ PostCreateUserMessage(p)
    \/ PostSaveSession(p)
    \/ PostEnqueue(p)
    \/ PostRespond(p)

TaskStep(t) ==
    \/ TaskGetSession(t)
    \/ TaskGetMessage(t)
    \/ TaskSetProcessing(t)
    \/ TaskCallAI(t)
    \/ TaskCreateAIMessage(t)
    \/ TaskSaveSession(t)
    \/ TaskSetCompleted(t)
    \/ TaskExceptSetError(t)
    \/ TaskFallbackCreate(t)
    \/ TaskFallbackSave(t)
    \/ TaskFallbackSetError(t)

\* Web workers and task workers run concurrently: requests and runs interleave
\* between any two of their calls.
Next ==
    \/ \E p \in Posts : PostStep(p)
    \/ \E t \in TaskIds : TaskStep(t)

Spec == Init /\ [][Next]_vars

\* One web worker and one task worker, a polling client and the clock: a
\* request or a run is taken up only when no run or request is under way.
PostBusy(p) == req[p].pc \notin {"idle", "done"}

TaskBusy(t) == tasks[t].pc \notin {"none", "queued", "done", "raised"}

OthersIdle(ps, ts) ==
    /\ \A q \in Posts \ ps : ~PostBusy(q)
    /\ \A u \in TaskIds \ ts : ~TaskBusy(u)

NextTimed ==
    \/ \E p \in Posts : OthersIdle({p}, {}) /\ PostStep(p)
    \/ \E t \in TaskIds : OthersIdle({}, {t}) /\ TaskStep(t)
    \/ \E message_id \in MessageIds : Poll(message_id)
    \/ Tick

SpecTimed == Init /\ [][NextTimed]_vars

\* ------------------------------------------------- properties
\* The run has ended: it returned a dict or an exception left it.
Finished(t) == tasks[t].pc \in {"done", "raised"}

KeyOf(t) == CacheKey(tasks[t].user_message_id)

Terminal == {"completed", "error"}

\* C1: for every run, the status under ai_response_<user_message_id> is first
\* 'processing', a 'completed' or 'error' status never changes to another
\* value, and a run that has ended, whichever step failed, has left a
\* 'completed' or 'error' status there.
C1_ProcessingThenOneTerminal ==
    [][\A t \in Queue :
          /\ (KeyOf(t) \notin DOMAIN cache /\ KeyOf(t) \in DOMAIN cache')
                => cache'[KeyOf(t)].blob.status = "processing"
          /\ (KeyOf(t) \in DOMAIN cache /\ cache[KeyOf(t)].blob.status \in Terminal)
                => cache'[KeyOf(t)].blob.status = cache[KeyOf(t)].blob.status
          /\ (tasks'[t].pc \in {"done", "raised"})
                => /\ KeyOf(t) \in DOMAIN cache'
                   /\ cache'[KeyOf(t)].blob.status \in Terminal]_vars

\* C2: a run that returned 'success', or that went through the fallback path
\* and saved there, has written a message_count one above the one it read.
C2_CountPlusOnePerRun ==
    \A t \in Queue :
        (tasks[t].pc = "done" /\ (tasks[t].ret = "success" \/ tasks[t].fallback = "saved"))
            => tasks[t].session.message_count = tasks[t].as_read.message_count + 1

\* tokens_used summed over the runs 1..n on session sid that returned 'success'
RECURSIVE SuccessTokens(_, _)
SuccessTokens(sid, n) ==
    IF n = 0 THEN 0
    ELSE SuccessTokens(sid, n - 1) +
         (IF tasks[n].session_id = sid /\ tasks[n].ret = "success"
          THEN tasks[n].response_data.tokens_used ELSE 0)

\* C3: once every run has returned, each session's stored total_tokens_used is the
\* sum of tokens_used over its runs that returned 'success'.
C3_TokensAreSuccessfulRuns ==
    (\A t \in Queue : tasks[t].pc = "done")
        => \A sid \in DOMAIN sessions :
              sessions[sid].total_tokens_used = SuccessTokens(sid, MaxPosts)

\* C4: a run that ended after a failure at any step has attempted the fallback
\* message, and a run that ended without any AI message of its own is one whose
\* fallback creation failed.
C4_FallbackAlwaysAttempted ==
    \A t \in Queue :
        Finished(t) =>
            /\ tasks[t].failed_at # "none"
                  => tasks[t].fallback \in {"created", "saved", "create_failed"}
            /\ tasks[t].ai_message = 0 => tasks[t].fallback = "create_failed"

\* The request has enqueued its task.
Enqueued(p) == req[p].pc = "respond" \/ (req[p].pc = "done" /\ req[p].http = 200)

TasksFor(message_id) == {t \in Queue : tasks[t].user_message_id = message_id}

\* C5: every enqueued task names a stored session whose saved message_count
\* counts a message and a stored user message of that session; a request that
\* enqueued has exactly one task, for the user message it created and returns;
\* every cache key is the key of such a user message.
C5_StoredBeforeEnqueued ==
    /\ \A t \in Queue :
          /\ tasks[t].session_id \in DOMAIN sessions
          /\ sessions[tasks[t].session_id].message_count >= 1
          /\ tasks[t].user_message_id \in DOMAIN messages
          /\ messages[tasks[t].user_message_id] = UserMessage(tasks[t].session_id)
          /\ \E p \in Posts : Enqueued(p) /\ req[p].task_id = t
    /\ \A p \in Posts :
          Enqueued(p) =>
              /\ TasksFor(req[p].user_message_id) = {req[p].task_id}
              /\ tasks[req[p].task_id].session_id = req[p].session.id
    /\ Cardinality({m \in DOMAIN messages : messages[m].is_from_user})
          = Cardinality({p \in Posts : req[p].user_message_id # 0})
    /\ Cardinality(Queue) = Cardinality({p \in Posts : Enqueued(p)})
    /\ \A k \in DOMAIN cache :
          \E p \in Posts : Enqueued(p) /\ k = CacheKey(req[p].user_message_id)

\* C5 witness: a run has read its session and user message and written its status
\* while its request has answered 200.
C5_Witness ==
    \E p \in Posts :
        /\ req[p].pc = "done" /\ req[p].http = 200
        /\ tasks[req[p].task_id].pc = "call_ai"
        /\ CacheKey(req[p].user_message_id) \in DOMAIN cache

\* C6: whenever the cache shows 'completed' for a message id, the AI message the
\* blob names is stored with the blob's response text, and the stored counters of
\* its session include it: the user turn and the AI turn, and its tokens_used.
C6_CompletedMeansStored ==
    \A k \in DOMAIN cache :
        LET b == CacheGet(cache, k)
        IN b.status = "completed" =>
              /\ b.message_id \in DOMAIN messages
              /\ ~messages[b.message_id].is_from_user
              /\ messages[b.message_id].content = b.response
              /\ LET row == sessions[messages[b.message_id].session]
                 IN /\ row.message_count >= 2
                    /\ row.total_tokens_used >= messages[b.message_id].tokens_used

\* The request that answered 200 'processing' with this user message id.
Answered(message_id) ==
    \E p \in Posts :
        req[p].pc = "done" /\ req[p].http = 200 /\ req[p].user_message_id = message_id

\* C7: a poll that answers not_found for an id a request has answered with does
\* so only when the task has written a status for it and CacheTimeout seconds
\* have passed since the last such write; every write expires CacheTimeout
\* seconds after it.
C7_NotFoundOnlyAfterTimeout ==
    [][/\ (last' # last /\ last'.http = 404 /\ Answered(last'.id))
            => /\ CacheKey(last'.id) \in DOMAIN cache
               /\ now >= cache[CacheKey(last'.id)].blob.timestamp + CacheTimeout
       /\ \A k \in DOMAIN cache' :
            (k \notin DOMAIN cache \/ cache'[k] # cache[k])
                => cache'[k].expires = now + CacheTimeout]_vars

\* C8: a poll answers 200 with exactly the blob of a live entry under
\* ai_response_<message_id> and 404 not_found when there is none, and changes
\* neither the cache, nor a session or message row, nor a run or a request.
C8_PollReadsOnly ==
    [][last' # last =>
          /\ last'.op = "poll"
          /\ LET k == CacheKey(last'.id)
             IN IF k \in DOMAIN cache /\ now < cache[k].expires
                THEN last'.http = 200 /\ last'.body = cache[k].blob
                ELSE last'.http = 404 /\ last'.body.status = "not_found"
          /\ UNCHANGED <<sessions, messages, cache, tasks, req, now, faults>>]_vars

\* C8 witness: a poll taken in the middle of a run has answered with the run's blob.
C8_Witness ==
    /\ last.op = "poll" /\ last.http = 200
    /\ \E t \in Queue :
          /\ tasks[t].user_message_id = last.id
          /\ tasks[t].pc = "save_session"
          /\ last.body = cache[KeyOf(t)].blob

\* C9: no exception leaves a run; a run that ended returned 'error' with the
\* cache entry at 'error' when a step failed, and 'success' otherwise.
C9_NoExceptionEscapes ==
    \A t \in Queue :
        /\ tasks[t].pc # "raised"
        /\ tasks[t].pc = "done" =>
              IF tasks[t].failed_at = "none"
              THEN tasks[t].ret = "success"
              ELSE /\ tasks[t].ret = "error"
                   /\ KeyOf(t) \in DOMAIN cache
                   /\ cache[KeyOf(t)].blob.status = "error"

MessagesOf(sid) == {m \in DOMAIN messages : messages[m].session = sid}

\* C10: once every request and every run has finished and none has failed, each
\* session's stored message_count is the number of its ChatMessage rows.
C10_NoLostIncrement ==
    (/\ faults = 0
     /\ \A p \in Posts : ~PostBusy(p)
     /\ \A t \in Queue : tasks[t].pc = "done" /\ tasks[t].ret = "success")
        => \A sid \in DOMAIN sessions :
              sessions[sid].message_count = Cardinality(MessagesOf(sid))

\* ------------------------------------------------- PasswordResetRequestView.post
chatvars == <<sessions, messages, cache, tasks, req, now, last, faults>>

\* Lines 155: User.objects.get(email=email, is_active=True)
ActiveUsers(email) ==
    {u \in DOMAIN users : users[u].email = email /\ users[u].is_active}

\* Lines 158-161: PasswordResetToken.objects.create(user=user, token=str(uuid.uuid4()))
NewResetToken(user) ==
    [user |-> user, token |-> NewId(reset_tokens), is_used |-> FALSE, created_at |-> clock]

\* Mutant of RequestResponse: the DoesNotExist branch answers 404.
RequestResponseRevealing(found) ==
    IF found
    THEN [http |-> 200, body |-> "If an account with that email exists, a password reset link has been sent."]
    ELSE [http |-> 404, body |-> "No account with that email"]

\* Lines 166-171: the response of a valid request, the user found or not
RequestResponse(found) ==
    [http |-> 200, body |-> "If an account with that email exists, a password reset link has been sent."]

\* Lines 150-173
ResetRequest(r) ==
    /\ rreq[r].pc = "idle"
    /\ \A q \in ResetRequests : q < r => rreq[q].pc # "idle"
    /\ \/ /\ rreq' = [rreq EXCEPT ![r] = [pc |-> "done", valid |-> FALSE, email |-> "",
                                          http |-> 400, body |-> "serializer.errors"]]
          /\ UNCHANGED <<reset_tokens, mail>>
       \/ \E email \in Emails :
            LET found == ActiveUsers(email) # {}
                resp == RequestResponse(found)
            IN /\ rreq' = [rreq EXCEPT ![r] = [pc |-> "done", valid |-> TRUE, email |-> email,
                                               http |-> resp.http, body |-> resp.body]]
               /\ IF found
                  THEN LET user == CHOOSE u \in ActiveUsers(email) : TRUE
                           row == NewResetToken(user)
                       IN /\ reset_tokens' = reset_tokens @@ (NewId(reset_tokens) :> row)
                          /\ mail' = Append(mail, [user_id |-> user, token |-> row.token])
                  ELSE UNCHANGED <<reset_tokens, mail>>
    /\ UNCHANGED <<users, conf, clock, chatvars>>

\* ------------------------------------------------- PasswordResetConfirmView.post
ConfSet(c, r) == conf' = [conf EXCEPT ![c] = r]

\* Mutant of TokenMatches: the is_used=False filter is left out.
TokenMatchesIgnoringUsed(row, token) ==
    /\ row.token = token
    /\ row.created_at >= clock - TokenLifetime

\* Lines 187-191: the filter token=token, is_used=False,
\* created_at__gte=timezone.now() - timezone.timedelta(hours=1)
TokenMatches(row, token) ==
    /\ row.token = token
    /\ row.is_used = FALSE
    /\ row.created_at >= clock - TokenLifetime

\* Lines 181-191 and 202-206: validate, then PasswordResetToken.objects.get(...)
ConfirmLookup(c) ==
    /\ conf[c].pc = "idle"
    /\ \A q \in Confirms : q < c => conf[q].pc # "idle"
    /\ \/ ConfSet(c, [conf[c] EXCEPT !.pc = "done", !.http = 400, !.body = "serializer.errors"])
       \/ \E token \in TokenValues, password \in Passwords :
            LET found == {k \in DOMAIN reset_tokens : TokenMatches(reset_tokens[k], token)}
                r == [conf[c] EXCEPT !.valid = TRUE, !.token = token, !.password = password]
            IN IF found = {}
               THEN ConfSet(c, [r EXCEPT !.pc = "done", !.http = 400,
                                   !.body = "Invalid or expired reset token"])
               ELSE LET k == CHOOSE k \in found : TRUE
                        row == reset_tokens[k]
                    IN ConfSet(c, [r EXCEPT !.pc = "set_password",
                                      !.reset_token = [id |-> k, user |-> row.user,
                                                       token |-> row.token,
                                                       is_used |-> row.is_used,
                                                       created_at |-> row.created_at]])
    /\ UNCHANGED <<users, reset_tokens, mail, rreq, clock, chatvars>>

\* Lines 193-195: user = reset_token.user; user.set_password(password); user.save()
ConfirmSetPassword(c) ==
    /\ conf[c].pc = "set_password"
    /\ users' = [users EXCEPT ![conf[c].reset_token.user].password =
                                   MakePassword(conf[c].password)]
    /\ ConfSet(c, [conf[c] EXCEPT !.pc = "mark_used"])
    /\ UNCHANGED <<reset_tokens, mail, rreq, clock, chatvars>>

\* Lines 197-200: reset_token.is_used = True; reset_token.save(); 200
ConfirmMarkUsed(c) ==
    /\ conf[c].pc = "mark_used"
    /\ LET rt == [conf[c].reset_token EXCEPT !.is_used = TRUE]
       IN /\ reset_tokens' = [reset_tokens EXCEPT ![rt.id] =
                 [user |-> rt.user, token |-> rt.token, is_used |-> rt.is_used,
                  created_at |-> rt.created_at]]
          /\ ConfSet(c, [conf[c] EXCEPT !.pc = "done", !.reset_token = rt, !.http = 200,
                            !.body = "Password reset successful"])
    /\ UNCHANGED <<users, mail, rreq, clock, chatvars>>

\* timezone.now() advances
ClockTick ==
    /\ clock < MaxClock
    /\ clock' = clock + ClockStep
    /\ UNCHANGED <<users, reset_tokens, mail, rreq, conf, chatvars>>

\* Password reset requests and confirmations, concurrent, and the clock.
NextReset ==
    \/ \E r \in ResetRequests : ResetRequest(r)
    \/ \E c \in Confirms :
        \/ ConfirmLookup(c)
        \/ ConfirmSetPassword(c)
        \/ ConfirmMarkUsed(c)
    \/ ClockTick

SpecReset == Init /\ [][NextReset]_vars

\* The confirmations that answered 'Password reset successful' for a token.
Successes(token) ==
    {c \in Confirms : conf[c].pc = "done" /\ conf[c].http = 200 /\ conf[c].token = token}

\* C11: over any interleaving of confirmations carrying the same token, at most
\* one answers 'Password reset successful'.
C11_TokenUsedAtMostOnce ==
    \A token \in TokenValues : Cardinality(Successes(token)) <= 1

\* The token string names no row, names a used row, or names a row created more
\* than TokenLifetime seconds ago.
BadToken(token) ==
    \A k \in DOMAIN reset_tokens :
        reset_tokens[k].token = token
            => (reset_tokens[k].is_used \/ reset_tokens[k].created_at + TokenLifetime < clock)

\* C12: a valid confirmation whose token is unknown, already used or older than
\* one hour answers 400 'Invalid or expired reset token' at once, and its step
\* changes no user's password and no token's is_used flag.
C12_BadTokenRejected ==
    [][\A c \in Confirms :
          (conf[c].pc = "idle" /\ conf'[c].pc # "idle" /\ conf'[c].valid
             /\ BadToken(conf'[c].token))
            => /\ conf'[c].pc = "done"
               /\ conf'[c].http = 400
               /\ conf'[c].body = "Invalid or expired reset token"
               /\ users' = users
               /\ reset_tokens' = reset_tokens]_vars

\* C12 witness: a confirmation that arrived after a successful one, with the same
\* token, was rejected: the token was used by then.
C12_Witness ==
    \E c1, c2 \in Confirms :
        /\ c1 < c2
        /\ conf[c1].pc = "done" /\ conf[c1].http = 200
        /\ conf[c2].pc = "done" /\ conf[c2].valid /\ conf[c2].http = 400
        /\ conf[c2].token = conf[c1].token
        /\ conf[c2].body = "Invalid or expired reset token"

FinishedValid(r) == rreq[r].pc = "done" /\ rreq[r].valid

\* The requests that named the email of an active user.
ForActiveUser == {r \in ResetRequests : FinishedValid(r) /\ rreq[r].email = "active"}

====
